---- MODULE Spec2Model ----
(***************************************************************************)
(* Productivity Tracker (src/main.cpp): the persistence and export engine. *)
(*                                                                         *)
(* Strings are TLA+ strings; the std::string operations the code uses      *)
(* (find, rfind, substr, find_first_not_of, getline) are operators with    *)
(* the 0-based positions of C++.  A file is the string of its bytes; the   *)
(* file system fs maps each existing path to its content.  time_t is the   *)
(* number of seconds since the epoch; the local time zone is a fixed       *)
(* offset from UTC.  The clock does not move while one operation runs.     *)
(***************************************************************************)
EXTENDS Integers, Sequences, FiniteSets, TLC

VARIABLES
    dailyLogs,               \* std::vector<DailyLog>: records [ts, type, text]
    breaks,                  \* std::vector<BreakEntry>: records [type, start, end]
    tasks,                   \* std::vector<Task>: records [name, parent, done]
    fs,                      \* the files that exist: path -> content
    diskOK,                  \* whether std::ofstream can open files for writing
    now,                     \* what time(nullptr) returns
    lastOp,                  \* the operation that produced this state, with its arguments
    ret,                     \* what that operation returned (a path, or "")
    new_task_parent_idx,     \* static int new_task_parent_idx
    parentComboIndex,        \* static int parentComboIndex of the Add Task panel
    drawn                    \* the task rows the last frame rendered, in order

\* the state of the user interface
ui == <<new_task_parent_idx, parentComboIndex, drawn>>

vars == <<dailyLogs, breaks, tasks, fs, diskOK, now, lastOp, ret, ui>>

-----------------------------------------------------------------------------
(* Bounds of the model.                                                    *)

MaxLogs == 3          \* events held in memory
MaxTasks == 2         \* tasks held in memory
MaxBreaks == 3        \* break entries held in memory
MaxFileLines == 3     \* lines of daily_logs.txt (it is append-only and never shrinks)
MaxExports == 1       \* export files kept on disk
MaxTaskFileLines == 3 \* lines of a tasks.txt found at startup
MaxJsonLen == 3       \* characters of a string given to json_escape
MaxDrawTasks == 3     \* tasks of a list given to the tree view

-----------------------------------------------------------------------------
(* std::string                                                             *)

npos == -1

Min(a, b) == IF a <= b THEN a ELSE b

SetMax(S) == CHOOSE x \in S : \A y \in S : x >= y

\* s[i], as a one-character string; "" past the end
at(s, i) == IF 0 <= i /\ i < Len(s) THEN SubSeq(s, i + 1, i + 1) ELSE ""

\* s.substr(pos, n)
substr(s, pos, n) == IF n <= 0 \/ pos >= Len(s) THEN "" ELSE SubSeq(s, pos + 1, Min(pos + n, Len(s)))

\* s.substr(pos)
substrFrom(s, pos) == IF pos >= Len(s) THEN "" ELSE SubSeq(s, pos + 1, Len(s))

SetMin(S) == CHOOSE x \in S : \A y \in S : x <= y

\* the positions i >= from at which pat occurs in s
Occurrences(s, pat, from) ==
    { i \in from .. (Len(s) - Len(pat)) : SubSeq(s, i + 1, i + Len(pat)) = pat }

\* the least member of hits, or npos when there is none
FirstOf(hits) == IF hits = {} THEN npos ELSE SetMin(hits)

\* the greatest member of hits, or npos when there is none
LastOf(hits) == IF hits = {} THEN npos ELSE SetMax(hits)

\* s.find(pat, from)
find(s, pat, from) == FirstOf(Occurrences(s, pat, from))

\* s.rfind(pat)
rfind(s, pat) == LastOf(Occurrences(s, pat, 0))

\* isspace(c) in the "C" locale
isspace(c) == c \in {" ", "\t", "\n", "\r", "\f"}

\* the first position i >= from that holds neither a space nor a tab, or npos
RECURSIVE find_first_not_of_blank_from(_, _)
find_first_not_of_blank_from(s, from) ==
    IF from >= Len(s) THEN npos
    ELSE IF at(s, from) \notin {" ", "\t"} THEN from
    ELSE find_first_not_of_blank_from(s, from + 1)

\* s.find_first_not_of(" \t")
find_first_not_of_blank(s) == find_first_not_of_blank_from(s, 0)

\* while (!s.empty() && isspace(s.back())) s.pop_back();
RECURSIVE pop_back_spaces(_)
pop_back_spaces(s) ==
    IF Len(s) > 0 /\ isspace(at(s, Len(s) - 1))
    THEN pop_back_spaces(SubSeq(s, 1, Len(s) - 1))
    ELSE s

\* the lines std::getline reads from position start of a stream holding c, where nls
\* holds the positions of the line breaks from start on
RECURSIVE CutLines(_, _, _)
RECURSIVE CutAt(_, _, _, _)
CutLines(c, start, nls) ==
    IF start >= Len(c) THEN <<>>
    ELSE IF nls = {} THEN <<substrFrom(c, start)>>
    ELSE CutAt(c, start, nls, SetMin(nls))

\* the line from start ends before the line break at nl
CutAt(c, start, nls, nl) ==
    <<substr(c, start, nl - start)>> \o CutLines(c, nl + 1, nls \ {nl})

\* the lines std::getline reads from a stream holding c, in order
getlines(c) == CutLines(c, 0, Occurrences(c, "\n", 0))

Digit(d) == SubSeq("0123456789", d + 1, d + 1)

\* operator<< of a non-negative integer
RECURSIVE ToDec(_)
ToDec(n) == IF n < 10 THEN Digit(n) ELSE ToDec(n \div 10) \o Digit(n % 10)

\* a non-negative integer zero-padded to w digits (strftime's %Y %m %d %H %M %S)
RECURSIVE ZeroFill(_, _)
ZeroFill(s, w) == IF Len(s) >= w THEN s ELSE ZeroFill("0" \o s, w)

Pad(n, w) == ZeroFill(ToDec(n), w)

Digits == { "0", "1", "2", "3", "4", "5", "6", "7", "8", "9" }

isdigit(c) == c \in Digits

\* c - '0'
DigitVal(c) ==
    CASE c = "0" -> 0 [] c = "1" -> 1 [] c = "2" -> 2 [] c = "3" -> 3 [] c = "4" -> 4
      [] c = "5" -> 5 [] c = "6" -> 6 [] c = "7" -> 7 [] c = "8" -> 8 [] c = "9" -> 9

-----------------------------------------------------------------------------
(* Time: localtime_r, gmtime_r, mktime, strftime, sscanf                   *)

\* local time is UTC + 1 h, with no daylight saving
TZOffsetSeconds == 60 * 60

SecondsPerDay == 24 * 60 * 60

MonthOfMp(mp) == IF mp < 10 THEN mp + 3 ELSE mp - 9

CivilOfMp(era, yoe, doy, mp) ==
    [y |-> yoe + era * 400 + (IF MonthOfMp(mp) <= 2 THEN 1 ELSE 0),
     m |-> MonthOfMp(mp),
     d |-> doy - (153 * mp + 2) \div 5 + 1]

CivilOfDoy(era, yoe, doy) == CivilOfMp(era, yoe, doy, (5 * doy + 2) \div 153)

CivilOfYoe(era, doe, yoe) == CivilOfDoy(era, yoe, doe - (365 * yoe + yoe \div 4 - yoe \div 100))

CivilOfDoe(era, doe) ==
    CivilOfYoe(era, doe, (doe - doe \div 1460 + doe \div 36524 - doe \div 146096) \div 365)

\* the civil date [y, m, d] of day number days (days since 1970-01-01), Gregorian
CivilFromDays(days) == CivilOfDoe((days + 719468) \div 146097, (days + 719468) % 146097)

\* the day number of the civil date y-m-d (m in 1..12; d may run past the month's end)
DaysFromCivil(y, m, d) ==
    LET yy == IF m <= 2 THEN y - 1 ELSE y
        era == yy \div 400
        yoe == yy - era * 400
        mp == IF m > 2 THEN m - 3 ELSE m + 9
        doy == (153 * mp + 2) \div 5 + d - 1
    IN  era * 146097 + (yoe * 365 + yoe \div 4 - yoe \div 100 + doy) - 719468

TmOf(c, sod) ==
    [tm_year |-> c.y - 1900, tm_mon |-> c.m - 1, tm_mday |-> c.d,
     tm_hour |-> sod \div 3600, tm_min |-> (sod % 3600) \div 60, tm_sec |-> sod % 60]

\* struct tm of the seconds count s read as a wall clock: the fields the code uses
BrokenDown(s) == TmOf(CivilFromDays(s \div SecondsPerDay), s % SecondsPerDay)

localtime(t) == BrokenDown(t + TZOffsetSeconds)

gmtime(t) == BrokenDown(t)

\* mktime of a struct tm with tm_isdst = -1: an out-of-range month or day is normalised
mktime(tm) ==
    LET months == (tm.tm_year + 1900) * 12 + tm.tm_mon
    IN  DaysFromCivil(months \div 12, (months % 12) + 1, tm.tm_mday) * SecondsPerDay
          + tm.tm_hour * 3600 + tm.tm_min * 60 + tm.tm_sec - TZOffsetSeconds

\* strftime of year, month, day, hour, minute, second with the separators given
strftime(tm, dsep, mid, tsep, tail) ==
    Pad(tm.tm_year + 1900, 4) \o dsep \o Pad(tm.tm_mon + 1, 2) \o dsep \o Pad(tm.tm_mday, 2)
      \o mid \o Pad(tm.tm_hour, 2) \o tsep \o Pad(tm.tm_min, 2) \o tsep \o Pad(tm.tm_sec, 2)
      \o tail

\* "%Y-%m-%d %H:%M:%S" of the local time
format_time_local(t) == IF t = 0 THEN "(n/a)" ELSE strftime(localtime(t), "-", " ", ":", "")

\* "%Y-%m-%dT%H:%M:%SZ" of the UTC time
format_iso_time(t) == IF t = 0 THEN "" ELSE strftime(gmtime(t), "-", "T", ":", "Z")

\* "%Y%m%d_%H%M%S" of the local time, as export_text_to_file formats it
format_file_stamp(t) == strftime(localtime(t), "", "_", "", "")

\* the first position from p on that holds no white space
RECURSIVE SkipSpace(_, _)
SkipSpace(s, p) == IF isspace(at(s, p)) THEN SkipSpace(s, p + 1) ELSE p

\* the number of digits of s from position p, at most w
RECURSIVE DigitRun(_, _, _)
DigitRun(s, p, w) == IF w > 0 /\ isdigit(at(s, p)) THEN 1 + DigitRun(s, p + 1, w - 1) ELSE 0

\* the value of the decimal digits s[p .. p+n-1]
RECURSIVE DigitsValue(_, _, _)
DigitsValue(s, p, n) ==
    IF n = 0 THEN 0 ELSE DigitsValue(s, p, n - 1) * 10 + DigitVal(at(s, p + n - 1))

ScanResult(s, q, r, n) ==
    [ok |-> n > 0,
     val |-> IF at(s, q) = "-" THEN 0 - DigitsValue(s, r, n) ELSE DigitsValue(s, r, n),
     next |-> r + n]

ScanSigned(s, q, w) ==
    IF at(s, q) \in {"-", "+"}
    THEN ScanResult(s, q, q + 1, DigitRun(s, q + 1, w - 1))
    ELSE ScanResult(s, q, q, DigitRun(s, q, w))

\* a decimal conversion of width w at position p: white space, an optional sign (counted
\* in w), digits. [ok, val, next]
ScanInt(s, p, w) == ScanSigned(s, SkipSpace(s, p), w)

\* "%4d-%2d-%2d %2d:%2d:%2d"
TimestampFormat ==
    << <<"%d", 4>>, <<"lit", "-">>, <<"%d", 2>>, <<"lit", "-">>, <<"%d", 2>>, <<"space">>,
       <<"%d", 2>>, <<"lit", ":">>, <<"%d", 2>>, <<"lit", ":">>, <<"%d", 2>> >>

\* sscanf from position p with the directives fmt left: the values converted, vals first
RECURSIVE sscanf(_, _, _, _)
RECURSIVE ScanConversion(_, _, _, _)
sscanf(s, p, fmt, vals) ==
    IF fmt = <<>> THEN vals
    ELSE IF Head(fmt)[1] = "%d" THEN ScanConversion(s, fmt, vals, ScanInt(s, p, Head(fmt)[2]))
    ELSE IF Head(fmt)[1] = "space" THEN sscanf(s, SkipSpace(s, p), Tail(fmt), vals)
    ELSE IF at(s, p) = Head(fmt)[2] THEN sscanf(s, p + 1, Tail(fmt), vals)
    ELSE vals

ScanConversion(s, fmt, vals, r) ==
    IF r.ok THEN sscanf(s, r.next, Tail(fmt), Append(vals, r.val)) ELSE vals

\* the rest of parse_timestamp once sscanf has converted v
TimeOfFields(v, clock) ==
    IF Len(v) = 6
    THEN LET t == mktime([tm_year |-> v[1] - 1900, tm_mon |-> v[2] - 1, tm_mday |-> v[3],
                          tm_hour |-> v[4], tm_min |-> v[5], tm_sec |-> v[6]])
         IN  IF t # -1 THEN t ELSE clock
    ELSE clock

\* parse_timestamp(s), called when the clock shows clock
parse_timestamp(s, clock) == TimeOfFields(sscanf(s, 0, TimestampFormat, <<>>), clock)

\* std::stoi(num): white space, an optional sign, digits; it throws when there is no
\* digit. [ok, val]
stoi(num) == ScanInt(num, 0, Len(num) + 1)

-----------------------------------------------------------------------------
(* Files                                                                   *)

HomeDir == "/home/u"

DATA_DIR_NAME == ".productivity_tracker"

user_data_dir == HomeDir \o "/" \o DATA_DIR_NAME

\* the data directory exists, so ensure_dir_exists succeeds
path_in_data(filename) == user_data_dir \o "/" \o filename

DailyLogsFile == path_in_data("daily_logs.txt")

TasksFile == path_in_data("tasks.txt")

DailyStatusFile == path_in_data("daily_status.txt")

WeeklyStatusFile == path_in_data("weekly_status.txt")

ClearedMarkerFile == path_in_data("cleared_marker.txt")

CoreFiles == {DailyLogsFile, TasksFile, DailyStatusFile, WeeklyStatusFile}

Exists(f, path) == path \in DOMAIN f

\* the bytes of the file at path; "" when it does not exist
Content(f, path) == IF Exists(f, path) THEN f[path] ELSE ""

\* std::ofstream f(path); f << content;  -- truncates or creates the file
WriteFile(f, path, content) == (path :> content) @@ f

\* std::ofstream f(path, std::ios::app); if (!f) return false; f << line << "\n";
append_line_to_file(f, path, line) ==
    IF ~diskOK THEN f
    ELSE WriteFile(f, path, Content(f, path) \o line \o "\n")

\* the program state a function of the code reads and writes
World == [logs |-> dailyLogs, breaks |-> breaks, tasks |-> tasks, fs |-> fs]

-----------------------------------------------------------------------------
(* Event log store                                                         *)

human_log_line(type, text, ts) ==
    format_time_local(IF ts # 0 THEN ts ELSE now) \o " - " \o type \o " - " \o text

\* a variant that keeps the event only when the line reached daily_logs.txt
append_daily_log_if_written(w, type, text) ==
    IF ~diskOK THEN w
    ELSE [w EXCEPT !.logs = Append(@, [ts |-> now, type |-> type, text |-> text]),
                   !.fs = append_line_to_file(@, DailyLogsFile, human_log_line(type, text, now))]

append_daily_log(w, type, text) ==
    [w EXCEPT !.logs = Append(@, [ts |-> now, type |-> type, text |-> text]),
              !.fs = append_line_to_file(@, DailyLogsFile, human_log_line(type, text, now))]

\* the loop of the menu item "Save Daily Logs" over the events left:
\* append_line_to_file(path_in_data("daily_logs.txt"), human_log_line(d.type, d.text, d.ts))
RECURSIVE AppendLogLines(_, _)
AppendLogLines(f, logs) ==
    IF logs = <<>> THEN f
    ELSE AppendLogLines(
             append_line_to_file(f, DailyLogsFile,
                                 human_log_line(Head(logs).type, Head(logs).text, Head(logs).ts)),
             Tail(logs))

\* File > Save Daily Logs
save_daily_logs(w) == [w EXCEPT !.fs = AppendLogLines(@, w.logs)]

\* the DailyLog made of a line whose first " - " is at firstDash; ts is what precedes it
ParseLogFields(line, firstDash, secondDash, ts) ==
    IF secondDash # npos
    THEN [ts |-> parse_timestamp(ts, now),
          type |-> substr(line, firstDash + 3, secondDash - (firstDash + 3)),
          text |-> IF secondDash + 3 < Len(line) THEN substrFrom(line, secondDash + 3) ELSE ""]
    ELSE [ts |-> parse_timestamp(ts, now),
          type |-> "LOG",
          text |-> substrFrom(line, firstDash + 3)]

\* a variant that takes the last " - " of the line for the second one
ParseLogAtLast(line, firstDash) ==
    IF firstDash # npos
    THEN ParseLogFields(line, firstDash,
                        IF rfind(line, " - ") >= firstDash + 3 THEN rfind(line, " - ") ELSE npos,
                        substr(line, 0, firstDash))
    ELSE [ts |-> now, type |-> "LOG", text |-> line]

ParseLogAt(line, firstDash) ==
    IF firstDash # npos
    THEN ParseLogFields(line, firstDash, find(line, " - ", firstDash + 3), substr(line, 0, firstDash))
    ELSE [ts |-> now, type |-> "LOG", text |-> line]

\* the DailyLog that load_daily_logs makes of one non-empty line
ParseLogLine(line) == ParseLogAt(line, find(line, " - ", 0))

\* the while (std::getline(f, line)) loop of load_daily_logs over the lines left
RECURSIVE LoadLogLines(_)
LoadLogLines(lines) ==
    IF lines = <<>> THEN <<>>
    ELSE IF Head(lines) = "" THEN LoadLogLines(Tail(lines))
    ELSE <<ParseLogLine(Head(lines))>> \o LoadLogLines(Tail(lines))

load_daily_logs(w) ==
    [w EXCEPT !.logs = IF ~Exists(w.fs, DailyLogsFile) THEN <<>>
                       ELSE LoadLogLines(getlines(w.fs[DailyLogsFile]))]

-----------------------------------------------------------------------------
(* Task store                                                              *)

\* operator<< of an int
IntStr(n) == IF n < 0 THEN "-" \o ToDec(0 - n) ELSE ToDec(n)

\* the line save_tasks writes for tasks[i] (i is 0-based)
TaskLine(i, t) ==
    ToDec(i) \o ": [" \o (IF t.done THEN "x" ELSE " ") \o "] " \o t.name
      \o (IF t.parent # -1 THEN " (parent=" \o IntStr(t.parent) \o ")" ELSE "") \o "\n"

\* the for loop of save_tasks from index i on
RECURSIVE TaskLinesFrom(_, _)
TaskLinesFrom(ts, i) ==
    IF i >= Len(ts) THEN "" ELSE TaskLine(i, ts[i + 1]) \o TaskLinesFrom(ts, i + 1)

save_tasks(w) ==
    IF ~diskOK THEN w
    ELSE [w EXCEPT !.fs = WriteFile(@, TasksFile, TaskLinesFrom(w.tasks, 0))]

\* if (pos != npos) rest = rest.substr(pos);
TrimLeftAt(rest, pos) == IF pos # npos THEN substrFrom(rest, pos) ELSE rest

TrimLeft(rest) == TrimLeftAt(rest, find_first_not_of_blank(rest))

\* a variant that takes an unreadable number for the first task
ParentOrFirst(r) == IF r.ok THEN r.val ELSE 0

\* try { parent = std::stoi(num); } catch(...) { parent = -1; }
ParentOf(r) == IF r.ok THEN r.val ELSE -1

\* the Task of a line whose "(parent=" is at ppos and whose next ")" is at endp
ParseTaskNum(rest, done, ppos, endp) ==
    IF endp # npos
    THEN [name |-> pop_back_spaces(substr(rest, 0, ppos)),
          parent |-> ParentOf(stoi(substr(rest, ppos + 8, endp - (ppos + 8)))),
          done |-> done]
    ELSE [name |-> rest, parent |-> -1, done |-> done]

ParseTaskParent(rest, done, ppos) ==
    IF ppos # npos
    THEN ParseTaskNum(rest, done, ppos, find(rest, ")", ppos))
    ELSE [name |-> rest, parent |-> -1, done |-> done]

\* rest = rest.substr(br + 1) when rest.find(']') finds br
AfterBracket(rest, br) == IF br # npos THEN substrFrom(rest, br + 1) ELSE rest

\* int parent = -1; size_t ppos = rest.rfind("(parent="); ...
ParseTaskSuffix(rest, done) == ParseTaskParent(rest, done, rfind(rest, "(parent="))

\* the Task of a line once its index and the blanks after it are gone
ParseTaskRest(rest) ==
    IF Len(rest) >= 3 /\ at(rest, 0) = "[" /\ at(rest, 2) = "]"
    THEN ParseTaskSuffix(TrimLeft(AfterBracket(rest, find(rest, "]", 0))), at(rest, 1) \in {"x", "X"})
    ELSE ParseTaskSuffix(rest, FALSE)

\* rest = (colon == npos) ? line : line.substr(colon + 1)
AfterColon(line, colon) == IF colon = npos THEN line ELSE substrFrom(line, colon + 1)

\* the Task that load_tasks makes of one non-empty line
ParseTaskLine(line) == ParseTaskRest(TrimLeft(AfterColon(line, find(line, ":", 0))))

\* the while (std::getline(f, line)) loop of load_tasks over the lines left
RECURSIVE LoadTaskLines(_)
LoadTaskLines(lines) ==
    IF lines = <<>> THEN <<>>
    ELSE IF Head(lines) = "" THEN LoadTaskLines(Tail(lines))
    ELSE <<ParseTaskLine(Head(lines))>> \o LoadTaskLines(Tail(lines))

load_tasks(w) ==
    [w EXCEPT !.tasks = IF ~Exists(w.fs, TasksFile) THEN <<>>
                        ELSE LoadTaskLines(getlines(w.fs[TasksFile]))]

\* tasks.push_back(Task{name, parent_idx, false});
PushTask(w, name, parent_idx) ==
    [w EXCEPT !.tasks = Append(@, [name |-> name, parent |-> parent_idx, done |-> FALSE])]

\* a variant that appends the event before it saves the tasks
AddTaskLogFirst(w, name, parent_idx) ==
    << PushTask(w, name, parent_idx),
       append_daily_log(PushTask(w, name, parent_idx), "TASK", "Added task: " \o name),
       save_tasks(append_daily_log(PushTask(w, name, parent_idx), "TASK", "Added task: " \o name)) >>

\* the program after each of the three statements of add_task
AddTaskSteps(w, name, parent_idx) ==
    << PushTask(w, name, parent_idx),
       save_tasks(PushTask(w, name, parent_idx)),
       append_daily_log(save_tasks(PushTask(w, name, parent_idx)), "TASK", "Added task: " \o name) >>

add_task(w, name, parent_idx) == AddTaskSteps(w, name, parent_idx)[3]

\* the checkbox of drawTasksRecursive(idx): tasks[idx].done = done; save_tasks();
toggle_task(w, idx, done) ==
    save_tasks([w EXCEPT !.tasks[idx + 1].done = done])

clearAllData(w) == [w EXCEPT !.logs = <<>>, !.breaks = <<>>, !.tasks = <<>>]

-----------------------------------------------------------------------------
(* The tree view of the tasks. A visit is the row drawn for one task: its index, *)
(* its depth, and whether the node is flagged as a leaf; every node is expanded. *)

\* for (i...) if (tasks[i].parent == idx) { hasChild = true; break; }
hasChild(ts, idx) == \E i \in 0 .. (Len(ts) - 1) : ts[i + 1].parent = idx

RECURSIVE drawTasksRecursive(_, _, _)
RECURSIVE DrawChildren(_, _, _, _)

\* a variant that recurses into the children from the last of the list to the first
RECURSIVE DrawChildrenBackward(_, _, _, _)
DrawChildrenBackward(ts, idx, depth, i) ==
    IF i >= Len(ts) THEN <<>>
    ELSE DrawChildrenBackward(ts, idx, depth, i + 1)
         \o (IF ts[i + 1].parent = idx THEN drawTasksRecursive(ts, i, depth + 1) ELSE <<>>)

\* for (i...) if (tasks[i].parent == idx) drawTasksRecursive(i, depth + 1);  from i on
DrawChildren(ts, idx, depth, i) ==
    IF i >= Len(ts) THEN <<>>
    ELSE (IF ts[i + 1].parent = idx THEN drawTasksRecursive(ts, i, depth + 1) ELSE <<>>)
         \o DrawChildren(ts, idx, depth, i + 1)

drawTasksRecursive(ts, idx, depth) ==
    IF idx < 0 \/ idx >= Len(ts) THEN <<>>
    ELSE <<[idx |-> idx, depth |-> depth, leaf |-> ~hasChild(ts, idx)]>>
         \o DrawChildren(ts, idx, depth, 0)

\* for (i...) if (tasks[i].parent == -1) drawTasksRecursive(i);  from i on
RECURSIVE DrawRoots(_, _)
DrawRoots(ts, i) ==
    IF i >= Len(ts) THEN <<>>
    ELSE (IF ts[i + 1].parent = -1 THEN drawTasksRecursive(ts, i, 0) ELSE <<>>)
         \o DrawRoots(ts, i + 1)

-----------------------------------------------------------------------------
(* Break tracker                                                           *)

kBreakTypes == <<"Coffee", "Bathroom", "Water", "Lunch", "Stretch">>

start_break(w, type) ==
    append_daily_log([w EXCEPT !.breaks = Append(@, [type |-> type, start |-> now, end |-> 0])],
                     "BREAK_START", "Started break: " \o type)

\* the reverse iteration of end_last_break_of_type, at 1-based index i (0: at rend):
\* the index of the entry the loop closes, 0 when it finds none
RECURSIVE ScanBreaksBackward(_, _, _)
ScanBreaksBackward(bs, type, i) ==
    IF i = 0 THEN 0
    ELSE IF bs[i].type = type /\ bs[i].end = 0 THEN i
    ELSE ScanBreaksBackward(bs, type, i - 1)

\* the BREAK_END event for the entry it, just closed
LogBreakEnd(w, it) ==
    append_daily_log(w, "BREAK_END",
        "Ended break: " \o it.type \o " (start " \o format_time_local(it.start)
          \o ", end " \o format_time_local(it.end) \o ")")

\* a variant that says nothing when it finds no open entry
EndBreakAtQuiet(w, type, i) ==
    IF i # 0
    THEN LogBreakEnd([w EXCEPT !.breaks[i].end = now], [w.breaks[i] EXCEPT !.end = now])
    ELSE w

\* the body of the loop at the entry found (i), or what follows the loop (i = 0)
EndBreakAt(w, type, i) ==
    IF i # 0
    THEN LogBreakEnd([w EXCEPT !.breaks[i].end = now], [w.breaks[i] EXCEPT !.end = now])
    ELSE append_daily_log(w, "BREAK_WARN", "Tried to end break but none active: " \o type)

\* a forward iteration instead: the first open entry of the type, 0 when there is none
RECURSIVE ScanBreaksForward(_, _, _)
ScanBreaksForward(bs, type, i) ==
    IF i > Len(bs) THEN 0
    ELSE IF bs[i].type = type /\ bs[i].end = 0 THEN i
    ELSE ScanBreaksForward(bs, type, i + 1)

\* a variant that closes the oldest open entry of the type
end_first_break_of_type(w, type) ==
    EndBreakAt(w, type, ScanBreaksForward(w.breaks, type, 1))

end_last_break_of_type(w, type) ==
    EndBreakAt(w, type, ScanBreaksBackward(w.breaks, type, Len(w.breaks)))

PushRandomBreak(w, b) ==
    append_daily_log([w EXCEPT !.breaks = Append(@, b)], "BREAK_RANDOM",
        "Random break: " \o b.type \o " (" \o format_time_local(b.start) \o " - "
          \o format_time_local(b.end) \o ")")

\* add_random_break with dtype(rng) = typeIndex and dmin(rng) = minutes
add_random_break(w, typeIndex, minutes) ==
    PushRandomBreak(w, [type |-> kBreakTypes[typeIndex + 1], start |-> now - minutes * 60, end |-> now])

\* the button "End i" of row i (0-based) of the break table:
\* breaks[i].end = time(nullptr); append_daily_log("BREAK_END", "Ended break: " + breaks[i].type);
end_break_row(w, i) ==
    append_daily_log([w EXCEPT !.breaks[i + 1].end = now],
                     "BREAK_END", "Ended break: " \o w.breaks[i + 1].type)

\* what the reference to breaks[i].type may read once push_back has moved the entries:
\* the category still, or what else lies there
DanglingReads(type) == { type, "?" }

\* a variant that opens the entry of the row again
reopen_break_row(w, i, read) ==
    append_daily_log([w EXCEPT !.breaks[i + 1].end = 0],
                     "BREAK_START", "Started break: " \o read)

\* the button "Start i" of row i (0-based): start_break(breaks[i].type). The category is
\* copied into the new entry before push_back; the text of the event is built after it
\* from the reference, which reads read
start_break_row(w, i, read) ==
    append_daily_log([w EXCEPT !.breaks = Append(@, [type |-> w.breaks[i + 1].type,
                                                     start |-> now, end |-> 0])],
                     "BREAK_START", "Started break: " \o read)

-----------------------------------------------------------------------------
(* Exports                                                                 *)

\* a variant that records the export in the event log itself
WriteExportLogged(w, path, content) ==
    IF ~diskOK THEN [w |-> w, path |-> ""]
    ELSE [w |-> append_daily_log([w EXCEPT !.fs = WriteFile(@, path, content \o "\n")],
                                 "EXPORT", path),
          path |-> path]

\* std::ofstream f(path); if (!f) return std::string(); f << content << "\n"; return path;
WriteExport(w, path, content) ==
    IF ~diskOK THEN [w |-> w, path |-> ""]
    ELSE [w |-> [w EXCEPT !.fs = WriteFile(@, path, content \o "\n")], path |-> path]

\* [w, path]: the state after the call and the std::string it returns
export_text_to_file(w, prefix, content) ==
    WriteExport(w, path_in_data(prefix \o "_" \o format_file_stamp(now) \o ".txt"), content)

SameDate(ta, tb) == ta.tm_year = tb.tm_year /\ ta.tm_mon = tb.tm_mon /\ ta.tm_mday = tb.tm_mday

\* a variant that compares by a rolling window of 24 hours
within_24_hours(a, b) == a - b < SecondsPerDay /\ b - a < SecondsPerDay

is_same_local_day(a, b) == SameDate(localtime(a), localtime(b))

\* the for loop of export_hourly_logs_today over the events left: what goes to content
RECURSIVE HourlyTodayContent(_, _)
HourlyTodayContent(logs, clock) ==
    IF logs = <<>> THEN ""
    ELSE (IF Head(logs).type = "HOURLY" /\ is_same_local_day(clock, Head(logs).ts)
          THEN human_log_line(Head(logs).type, Head(logs).text, Head(logs).ts) \o "\n"
          ELSE "") \o HourlyTodayContent(Tail(logs), clock)

\* a variant that writes the file whether or not an event matched
ExportHourlyAlways(w, content) == export_text_to_file(w, "hourly_logs_today", content)

\* if (content.str().empty()) return std::string(); return export_text_to_file(...);
ExportHourlyContent(w, content) ==
    IF content = "" THEN [w |-> w, path |-> ""]
    ELSE export_text_to_file(w, "hourly_logs_today", content)

export_hourly_logs_today(w) ==
    IF w.logs = <<>> THEN [w |-> w, path |-> ""]
    ELSE ExportHourlyContent(w, HourlyTodayContent(w.logs, now))

\* a variant that copies a backslash as it is
EscapeCharButBackslash(c) ==
    CASE c = "\"" -> "\\\""
      [] c = "\n" -> "\\n"
      [] c = "\r" -> "\\r"
      [] c = "\t" -> "\\t"
      [] OTHER -> c

\* what json_escape appends for the character c
EscapeChar(c) ==
    CASE c = "\\" -> "\\\\"
      [] c = "\"" -> "\\\""
      [] c = "\n" -> "\\n"
      [] c = "\r" -> "\\r"
      [] c = "\t" -> "\\t"
      [] OTHER -> c

RECURSIVE json_escape(_)
json_escape(s) ==
    IF s = "" THEN "" ELSE EscapeChar(at(s, 0)) \o json_escape(substrFrom(s, 1))

week_seconds == 7 * 24 * 60 * 60

\* the line the loop of export_weekly_logs_file adds to hourly_jsonl_section for d
HourlyJson(d) ==
    "{\"type\":\"HOURLY\",\"timestamp\":\"" \o json_escape(format_iso_time(d.ts))
      \o "\",\"text\":\"" \o json_escape(d.text) \o "\"}"

\* a variant that also skips an event exactly at the cutoff
WeeklyAddAfter(d, cutoff, rest) ==
    IF d.ts <= cutoff THEN rest
    ELSE [human |-> human_log_line(d.type, d.text, d.ts) \o "\n" \o rest.human,
          jsonl |-> (IF d.type = "HOURLY" THEN HourlyJson(d) \o "\n" ELSE "") \o rest.jsonl]

\* one pass of the loop of export_weekly_logs_file: d goes before the sections rest
WeeklyAdd(d, cutoff, rest) ==
    IF d.ts < cutoff THEN rest
    ELSE [human |-> human_log_line(d.type, d.text, d.ts) \o "\n" \o rest.human,
          jsonl |-> (IF d.type = "HOURLY" THEN HourlyJson(d) \o "\n" ELSE "") \o rest.jsonl]

\* the for loop of export_weekly_logs_file over the events left: [human, jsonl]
RECURSIVE WeeklySections(_, _)
WeeklySections(logs, cutoff) ==
    IF logs = <<>> THEN [human |-> "", jsonl |-> ""]
    ELSE WeeklyAdd(Head(logs), cutoff, WeeklySections(Tail(logs), cutoff))

WeeklyHeader(clock) ==
    "WEEKLY LOG EXPORT\n" \o "Generated: " \o format_time_local(clock) \o "\n"
      \o "Range: last 7 days\n\n"

JsonlDelimiter == "\n=== HOURLY_ENTRIES_JSONL (one JSON object per line) ===\n"

EndDelimiter == "\n=== END OF EXPORT ===\n"

\* final_content
WeeklyContent(sec, clock) ==
    WeeklyHeader(clock) \o sec.human \o JsonlDelimiter \o sec.jsonl \o EndDelimiter

\* a variant that, like the hourly export, writes nothing when no event passed the filter
ExportWeeklyIfAny(w, sec) ==
    IF sec.human = "" THEN [w |-> w, path |-> ""]
    ELSE export_text_to_file(w, "weekly_logs_export", WeeklyContent(sec, now))

\* export_text_to_file("weekly_logs_export", final_content.str().c_str())
ExportWeeklyContent(w, sec) ==
    export_text_to_file(w, "weekly_logs_export", WeeklyContent(sec, now))

export_weekly_logs_file(w) ==
    IF w.logs = <<>> THEN [w |-> w, path |-> ""]
    ELSE ExportWeeklyContent(w, WeeklySections(w.logs, now - week_seconds))

\* if (!p.empty()) append_daily_log("EXPORT", what + p);
LogExport(r, what) ==
    IF r.path # "" THEN append_daily_log(r.w, "EXPORT", what \o r.path) ELSE r.w

save_daily_status_to_disk_and_log(w, text) ==
    LogExport(
        export_text_to_file(
            append_daily_log(
                [w EXCEPT !.fs = append_line_to_file(@, DailyStatusFile,
                                     human_log_line("DAILY_STATUS", text, 0))],
                "DAILY_STATUS", text),
            "daily_status_saved", text),
        "Exported daily status to ")

save_weekly_status_to_disk_and_log(w, text) ==
    LogExport(
        export_text_to_file(
            append_daily_log(
                [w EXCEPT !.fs = append_line_to_file(@, WeeklyStatusFile,
                                     human_log_line("WEEKLY_STATUS", text, 0))],
                "WEEKLY_STATUS", text),
            "weekly_status_saved", text),
        "Exported weekly status to ")

-----------------------------------------------------------------------------
(* Inputs                                                                  *)

\* 2024-01-01 12:00:00 UTC, 13:00:00 local
T0 == DaysFromCivil(2024, 1, 1) * SecondsPerDay + 12 * 3600

\* the instants the clock is read at: twelve hours on is the next local day, and the
\* last one is a week after the second, a week and a second after the first
Instants == { T0, T0 + 1, T0 + 12 * 3600, T0 + week_seconds + 1 }

FewInstants == { T0, T0 + 12 * 3600 }

LogKinds == { "HOURLY", "NOTE", "A - B" }

LogTexts == { "a", "b - c", "d\ne" }

TaskNames == { "a", " b", "c (parent=0)" }

StatusTexts == { "s", "t\nu" }

\* the two buttons that export a status text: the prefix of the file and the words of the event
StatusExports ==
    { [prefix |-> "daily_status_export", what |-> "Exported daily status to "],
      [prefix |-> "weekly_status_export", what |-> "Exported weekly status to "] }

\* lines a tasks.txt may hold at startup: written by save_tasks, edited by hand, or empty
TaskFileLines ==
    { "0: [ ] a", "1: [x] b (parent=0)", "c", "2: [ ] d (parent=zz)", "[X]e (parent=)", "" }

\* the break categories used: indices into kBreakTypes
BreakTypeIndices == { 0, 1 }

RandomMinutes == { 1, 20 }

-----------------------------------------------------------------------------
(* Operations                                                              *)

Init ==
    /\ dailyLogs = <<>>
    /\ breaks = <<>>
    /\ tasks = <<>>
    /\ fs = <<>>
    /\ diskOK = TRUE
    /\ now = T0
    /\ lastOp = <<"start">>
    /\ ret = ""
    /\ new_task_parent_idx = -1
    /\ parentComboIndex = 0
    /\ drawn = <<>>

\* the operation leaves the program in state w
Commit(w) ==
    /\ dailyLogs' = w.logs
    /\ breaks' = w.breaks
    /\ tasks' = w.tasks
    /\ fs' = w.fs

ExportFiles(f) == DOMAIN f \ (CoreFiles \cup {ClearedMarkerFile})

\* the number of lines of a file holding c
LineCount(c) ==
    Cardinality(Occurrences(c, "\n", 0))
        + (IF c # "" /\ at(c, Len(c) - 1) # "\n" THEN 1 ELSE 0)

LogFileLines == LineCount(Content(fs, DailyLogsFile))

\* room for k more events in memory and in daily_logs.txt
LogRoom(k) == Len(dailyLogs) + k <= MaxLogs /\ LogFileLines + k <= MaxFileLines

\* room for one more export file
ExportRoom == Cardinality(ExportFiles(fs)) < MaxExports

AppendDailyLog(K, T) ==
    /\ LogRoom(1)
    /\ \E kind \in K, text \in T :
          /\ Commit(append_daily_log(World, kind, text))
          /\ lastOp' = <<"append_daily_log", kind, text>>
    /\ ret' = ""
    /\ UNCHANGED <<diskOK, now, ui>>

AddTask(N) ==
    /\ Len(tasks) < MaxTasks
    /\ LogRoom(1)
    /\ \E name \in N, parent_idx \in -1 .. Len(tasks) :
          /\ Commit(add_task(World, name, parent_idx))
          /\ lastOp' = <<"add_task", name, parent_idx>>
    /\ ret' = ""
    /\ UNCHANGED <<diskOK, now, ui>>

\* the entry n of the combo "Parent" is chosen; its entries are "(none)" and the tasks:
\* parentComboIndex = n; new_task_parent_idx = n - 1;
SelectParent ==
    /\ \E n \in 0 .. Len(tasks) :
          /\ parentComboIndex' = n
          /\ new_task_parent_idx' = n - 1
          /\ lastOp' = <<"select_parent", n>>
    /\ ret' = ""
    /\ UNCHANGED <<dailyLogs, breaks, tasks, fs, diskOK, now, drawn>>

\* the button "Add Task" with a name typed in:
\* add_task(newTaskText, new_task_parent_idx); new_task_parent_idx = -1;
AddTaskButton(N) ==
    /\ Len(tasks) < MaxTasks
    /\ LogRoom(1)
    /\ \E name \in N :
          /\ Commit(add_task(World, name, new_task_parent_idx))
          /\ lastOp' = <<"add_task", name, new_task_parent_idx>>
    /\ new_task_parent_idx' = -1
    /\ ret' = ""
    /\ UNCHANGED <<diskOK, now, parentComboIndex, drawn>>

\* parentOptions: "(none)", then one entry "i: name" per task
ParentOptions(ts) == <<"(none)">> \o [i \in 1 .. Len(ts) |-> ToDec(i - 1) \o ": " \o ts[i].name]

\* one frame of the panel "Add Task": BeginCombo reads parentOptions[parentComboIndex] for
\* the preview. Past the end of the vector the read gives some text, or ends the process:
\* the program is then started again
ParentComboFrame ==
    /\ \/ /\ parentComboIndex < Len(ParentOptions(tasks))
          /\ ret' = ParentOptions(tasks)[parentComboIndex + 1]
          /\ lastOp' = <<"frame", parentComboIndex>>
          /\ UNCHANGED <<dailyLogs, breaks, tasks, fs, ui>>
       \/ /\ parentComboIndex >= Len(ParentOptions(tasks))
          /\ ret' = "?"
          /\ lastOp' = <<"frame", parentComboIndex>>
          /\ UNCHANGED <<dailyLogs, breaks, tasks, fs, ui>>
       \/ /\ parentComboIndex >= Len(ParentOptions(tasks))
          /\ Commit(load_daily_logs(load_tasks(clearAllData(World))))
          /\ ret' = ""
          /\ lastOp' = <<"crash", parentComboIndex>>
          /\ new_task_parent_idx' = -1
          /\ parentComboIndex' = 0
          /\ drawn' = <<>>
    /\ UNCHANGED <<diskOK, now>>

ToggleTask ==
    /\ \E idx \in 0 .. (Len(tasks) - 1) :
          /\ Commit(toggle_task(World, idx, ~tasks[idx + 1].done))
          /\ lastOp' = <<"toggle_task", idx>>
    /\ ret' = ""
    /\ UNCHANGED <<diskOK, now, ui>>

SaveTasks ==
    /\ Commit(save_tasks(World))
    /\ lastOp' = <<"save_tasks">>
    /\ ret' = ""
    /\ UNCHANGED <<diskOK, now, ui>>

\* a new process: the vectors start empty, then main calls load_tasks and load_daily_logs
Restart ==
    /\ Commit(load_daily_logs(load_tasks(clearAllData(World))))
    /\ lastOp' = <<"restart">>
    /\ ret' = ""
    /\ new_task_parent_idx' = -1
    /\ parentComboIndex' = 0
    /\ drawn' = <<>>
    /\ UNCHANGED <<diskOK, now>>

StartBreak ==
    /\ Len(breaks) < MaxBreaks
    /\ LogRoom(1)
    /\ \E i \in BreakTypeIndices :
          /\ Commit(start_break(World, kBreakTypes[i + 1]))
          /\ lastOp' = <<"start_break", kBreakTypes[i + 1]>>
    /\ ret' = ""
    /\ UNCHANGED <<diskOK, now, ui>>

EndLastBreakOfType ==
    /\ LogRoom(1)
    /\ \E i \in BreakTypeIndices :
          /\ Commit(end_last_break_of_type(World, kBreakTypes[i + 1]))
          /\ lastOp' = <<"end_last_break_of_type", kBreakTypes[i + 1]>>
    /\ ret' = ""
    /\ UNCHANGED <<diskOK, now, ui>>

AddRandomBreak ==
    /\ Len(breaks) < MaxBreaks
    /\ LogRoom(1)
    /\ \E i \in BreakTypeIndices, minutes \in RandomMinutes :
          /\ Commit(add_random_break(World, i, minutes))
          /\ lastOp' = <<"add_random_break", i, minutes>>
    /\ ret' = ""
    /\ UNCHANGED <<diskOK, now, ui>>

\* the button "End i" of a row of the break table with no end yet
EndBreakRow ==
    /\ LogRoom(1)
    /\ \E i \in 0 .. (Len(breaks) - 1) :
          /\ breaks[i + 1].end = 0
          /\ Commit(end_break_row(World, i))
          /\ lastOp' = <<"end_break_row", i>>
    /\ ret' = ""
    /\ UNCHANGED <<diskOK, now, ui>>

\* the button "Start i" of a row of the break table that has an end. The read through the
\* reference left dangling by push_back gives some text, or ends the process: the program
\* is then started again
StartBreakRow ==
    /\ Len(breaks) < MaxBreaks
    /\ LogRoom(1)
    /\ \E i \in 0 .. (Len(breaks) - 1) :
          /\ breaks[i + 1].end # 0
          /\ \/ /\ \E read \in DanglingReads(breaks[i + 1].type) :
                      /\ Commit(start_break_row(World, i, read))
                      /\ lastOp' = <<"start_break_row", i, read>>
                /\ UNCHANGED ui
             \/ /\ Commit(load_daily_logs(load_tasks(clearAllData(World))))
                /\ lastOp' = <<"crash", i>>
                /\ new_task_parent_idx' = -1
                /\ parentComboIndex' = 0
                /\ drawn' = <<>>
    /\ ret' = ""
    /\ UNCHANGED <<diskOK, now>>

ClearAllData ==
    /\ Commit(clearAllData(World))
    /\ lastOp' = <<"clearAllData">>
    /\ ret' = ""
    /\ UNCHANGED <<diskOK, now, ui>>

\* the buttons "Export Daily Status (file)" and "Export Weekly Status (file)":
\* p = export_text_to_file(prefix, text); if (!p.empty()) append_daily_log("EXPORT", what + p);
ExportTextToFile(T) ==
    /\ ExportRoom
    /\ LogRoom(1)
    /\ \E b \in StatusExports, content \in T :
          /\ Commit(LogExport(export_text_to_file(World, b.prefix, content), b.what))
          /\ ret' = export_text_to_file(World, b.prefix, content).path
          /\ lastOp' = <<"export_text_to_file", b.prefix, content>>
    /\ UNCHANGED <<diskOK, now, ui>>

\* the button "Export Hourly Logs (today)"
ExportHourlyLogsToday ==
    /\ ExportRoom
    /\ LogRoom(1)
    /\ Commit(LogExport(export_hourly_logs_today(World), "Exported hourly logs (today) to "))
    /\ ret' = export_hourly_logs_today(World).path
    /\ lastOp' = <<"export_hourly_logs_today">>
    /\ UNCHANGED <<diskOK, now, ui>>

\* the button "Export Weekly Logs (file)"
ExportWeeklyLogsFile ==
    /\ ExportRoom
    /\ LogRoom(1)
    /\ Commit(LogExport(export_weekly_logs_file(World), "Exported weekly logs to "))
    /\ ret' = export_weekly_logs_file(World).path
    /\ lastOp' = <<"export_weekly_logs_file">>
    /\ UNCHANGED <<diskOK, now, ui>>

SaveDailyStatus(T) ==
    /\ LogRoom(2)
    /\ ExportRoom
    /\ \E text \in T :
          /\ Commit(save_daily_status_to_disk_and_log(World, text))
          /\ lastOp' = <<"save_daily_status_to_disk_and_log", text>>
    /\ ret' = ""
    /\ UNCHANGED <<diskOK, now, ui>>

SaveWeeklyStatus(T) ==
    /\ LogRoom(2)
    /\ ExportRoom
    /\ \E text \in T :
          /\ Commit(save_weekly_status_to_disk_and_log(World, text))
          /\ lastOp' = <<"save_weekly_status_to_disk_and_log", text>>
    /\ ret' = ""
    /\ UNCHANGED <<diskOK, now, ui>>

\* the menu item File > Save Daily Logs
SaveDailyLogs ==
    /\ LogFileLines + Len(dailyLogs) <= MaxFileLines
    /\ Commit(save_daily_logs(World))
    /\ lastOp' = <<"save_daily_logs">>
    /\ ret' = ""
    /\ UNCHANGED <<diskOK, now, ui>>

\* time passes
Tick(I) ==
    /\ \E t \in I : t > now /\ now' = t
    /\ lastOp' = <<"tick">>
    /\ ret' = ""
    /\ UNCHANGED <<dailyLogs, breaks, tasks, fs, diskOK, ui>>

\* the data directory becomes read-only or full: from now on no file can be opened for writing
DiskFails ==
    /\ diskOK
    /\ diskOK' = FALSE
    /\ lastOp' = <<"disk">>
    /\ ret' = ""
    /\ UNCHANGED <<dailyLogs, breaks, tasks, fs, now, ui>>

-----------------------------------------------------------------------------
(* Specifications                                                          *)

\* the three stores through a session, Clear All and the next start of the program
Next ==
    \/ AppendDailyLog({"HOURLY"}, {"a"})
    \/ AddTask({"a"})
    \/ ToggleTask
    \/ StartBreak
    \/ EndLastBreakOfType
    \/ SaveDailyStatus({"s"})
    \/ SaveWeeklyStatus({"s"})
    \/ ClearAllData
    \/ Restart
    \/ Tick(FewInstants)

Spec == Init /\ [][Next]_vars

\* the task store
NextTasks ==
    \/ AddTask(TaskNames)
    \/ ToggleTask
    \/ SaveTasks
    \/ Restart

SpecTasks == Init /\ [][NextTasks]_vars

\* the event log store
NextLog ==
    \/ AppendDailyLog(LogKinds, LogTexts)
    \/ Restart
    \/ Tick(FewInstants)

SpecLog == Init /\ [][NextLog]_vars

\* the break tracker
NextBreaks ==
    \/ StartBreak
    \/ EndLastBreakOfType
    \/ AddRandomBreak
    \/ Tick(FewInstants)

SpecBreaks == Init /\ [][NextBreaks]_vars

\* the export generator
NextExport ==
    \/ AppendDailyLog({"HOURLY", "NOTE"}, {"a"})
    \/ ExportTextToFile({"s"})
    \/ ExportHourlyLogsToday
    \/ ExportWeeklyLogsFile
    \/ Tick(Instants)
    \/ DiskFails

SpecExport == Init /\ [][NextExport]_vars

\* exports taken from a program that holds events, tasks and breaks
NextSnapshot ==
    \/ AppendDailyLog({"HOURLY"}, {"a"})
    \/ AddTask({"a"})
    \/ StartBreak
    \/ ExportTextToFile({"s"})
    \/ ExportHourlyLogsToday
    \/ ExportWeeklyLogsFile
    \/ DiskFails

SpecSnapshot == Init /\ [][NextSnapshot]_vars

\* the content of a file made of the given lines
RECURSIVE JoinLines(_)
JoinLines(lines) ==
    IF lines = <<>> THEN "" ELSE Head(lines) \o "\n" \o JoinLines(Tail(lines))

\* the program starts in a data directory that holds some tasks.txt
InitTaskFile ==
    /\ dailyLogs = <<>>
    /\ breaks = <<>>
    /\ tasks = <<>>
    /\ \E n \in 0 .. MaxTaskFileLines : \E lines \in [1 .. n -> TaskFileLines] :
          fs = (TasksFile :> JoinLines(lines))
    /\ diskOK = TRUE
    /\ now = T0
    /\ lastOp = <<"start">>
    /\ ret = ""
    /\ new_task_parent_idx = -1
    /\ parentComboIndex = 0
    /\ drawn = <<>>

\* load_tasks at startup
NextLoadTasks == Restart

SpecLoadTasks == InitTaskFile /\ [][NextLoadTasks]_vars

\* the characters of the strings given to json_escape: the five it escapes and one other
JsonChars == { "\\", "\"", "\n", "\r", "\t", "n" }

\* the strings of at most n of these characters
RECURSIVE JsonStrings(_)
JsonStrings(n) ==
    IF n = 0 THEN { "" }
    ELSE { "" } \cup { c \o s : c \in JsonChars, s \in JsonStrings(n - 1) }

\* a call json_escape(s)
JsonEscape ==
    /\ \E s \in JsonStrings(MaxJsonLen) :
          /\ ret' = json_escape(s)
          /\ lastOp' = <<"json_escape", s>>
    /\ UNCHANGED <<dailyLogs, breaks, tasks, fs, diskOK, now, ui>>

NextJson == JsonEscape

SpecJson == Init /\ [][NextJson]_vars

\* status texts of several lines saved, then the weekly export
NextStatus ==
    \/ AppendDailyLog({"HOURLY"}, {"a"})
    \/ SaveDailyStatus(StatusTexts)
    \/ SaveWeeklyStatus(StatusTexts)
    \/ ExportWeeklyLogsFile
    \/ Tick(Instants)

SpecStatus == Init /\ [][NextStatus]_vars

\* the operations that write events, on a disk that takes every write
NextMirror ==
    \/ AppendDailyLog({"HOURLY"}, {"a"})
    \/ AddTask({"a"})
    \/ StartBreak
    \/ EndLastBreakOfType
    \/ SaveDailyStatus({"s"})
    \/ ExportTextToFile({"s"})
    \/ ExportHourlyLogsToday
    \/ ExportWeeklyLogsFile
    \/ SaveDailyLogs
    \/ Restart

SpecMirror == Init /\ [][NextMirror]_vars

\* the task panel: the parent combo, Add Task, the checkboxes, and Clear All
NextParent ==
    \/ SelectParent
    \/ AddTaskButton({"a"})
    \/ ToggleTask
    \/ ClearAllData

SpecParent == Init /\ [][NextParent]_vars

\* the task lists the tree view can be given: any parent index within the list or none
DrawLists ==
    UNION { [1 .. n -> [name : {"t"}, parent : -1 .. (n - 1), done : {FALSE}]] :
            n \in 0 .. MaxDrawTasks }

\* the program holds some task list, saved in tasks.txt
InitDraw ==
    /\ dailyLogs = <<>>
    /\ breaks = <<>>
    /\ tasks \in DrawLists
    /\ fs = (TasksFile :> TaskLinesFrom(tasks, 0))
    /\ diskOK = TRUE
    /\ now = T0
    /\ lastOp = <<"start">>
    /\ ret = ""
    /\ new_task_parent_idx = -1
    /\ parentComboIndex = 0
    /\ drawn = <<>>

Clicked(w, click) ==
    IF click = -1 THEN w ELSE toggle_task(w, click, ~w.tasks[click + 1].done)

\* one frame of the task list: every root is drawn with its subtree; the checkbox of one
\* of the drawn tasks may be clicked (click = -1: none is)
DrawTasks ==
    /\ \E click \in {-1} \cup { DrawRoots(tasks, 0)[k].idx : k \in 1 .. Len(DrawRoots(tasks, 0)) } :
          /\ Commit(Clicked(World, click))
          /\ lastOp' = <<"draw", click>>
    /\ drawn' = DrawRoots(tasks, 0)
    /\ ret' = ""
    /\ UNCHANGED <<diskOK, now, new_task_parent_idx, parentComboIndex>>

NextDraw == DrawTasks

SpecDraw == InitDraw /\ [][NextDraw]_vars

\* lines of a daily_logs.txt found at startup: empty, without " - ", with one, as written
\* by append_daily_log, with three, with two that overlap, ending in one, and only one
LogFileLineTexts ==
    { "", "x", "a - b", human_log_line("NOTE", "y", T0), "t - K - y - z", "a - - b",
      "t - K - ", " - " }

\* the program starts in a data directory that holds some daily_logs.txt
InitLogFile ==
    /\ dailyLogs = <<>>
    /\ breaks = <<>>
    /\ tasks = <<>>
    /\ \E n \in 0 .. MaxFileLines : \E lines \in [1 .. n -> LogFileLineTexts] :
          fs = (DailyLogsFile :> JoinLines(lines))
    /\ diskOK = TRUE
    /\ now = T0
    /\ lastOp = <<"start">>
    /\ ret = ""
    /\ new_task_parent_idx = -1
    /\ parentComboIndex = 0
    /\ drawn = <<>>

\* load_daily_logs at startup
NextLoadLogs == Restart

SpecLoadLogs == InitLogFile /\ [][NextLoadLogs]_vars

\* the break tracker with the buttons of the break table
NextBreakTable ==
    \/ StartBreak
    \/ EndLastBreakOfType
    \/ AddRandomBreak
    \/ EndBreakRow
    \/ StartBreakRow
    \/ Tick(FewInstants)

SpecBreakTable == Init /\ [][NextBreakTable]_vars

\* the panel "Add Task" with its frames, and Clear All
NextCombo ==
    \/ SelectParent
    \/ AddTaskButton({"a"})
    \/ ClearAllData
    \/ ParentComboFrame

SpecCombo == Init /\ [][NextCombo]_vars

-----------------------------------------------------------------------------
(* Properties: task store and event log store                              *)

Range(s) == { s[i] : i \in 1 .. Len(s) }

\* following parent links from task i (0-based) reaches a root within fuel steps
RECURSIVE ReachesRoot(_, _, _)
ReachesRoot(ts, i, fuel) ==
    IF ts[i + 1].parent = -1 THEN TRUE
    ELSE IF fuel = 0 \/ ts[i + 1].parent \notin 0 .. (Len(ts) - 1) THEN FALSE
    ELSE ReachesRoot(ts, ts[i + 1].parent, fuel - 1)

\* the parent indices form a forest: no self-reference, no cycle, no dangling index
IsForest(ts) == \A i \in 0 .. (Len(ts) - 1) : ReachesRoot(ts, i, Len(ts))

Triples(ts) == [i \in 1 .. Len(ts) |-> <<ts[i].name, ts[i].parent, ts[i].done>>]

\* C1: whenever the parent indices of the task list form a forest, save_tasks followed
\* by load_tasks gives a list of the same length with the same (name, parent, done) at
\* every position.
C1_TaskRoundTrip ==
    IsForest(tasks) => Triples(load_tasks(save_tasks(World)).tasks) = Triples(tasks)

\* C1: a forest of tasks is in memory after add_task, and one of the names starts with a blank
C1_Witness ==
    /\ lastOp[1] = "add_task"
    /\ IsForest(tasks)
    /\ \E i \in 1 .. Len(tasks) : at(tasks[i].name, 0) = " "

KindText(logs) == [i \in 1 .. Len(logs) |-> <<logs[i].type, logs[i].text>>]

NoSeparatorInTexts(logs) == \A i \in 1 .. Len(logs) : find(logs[i].text, " - ", 0) = npos

\* C2: when no text of the appended events contains " - ", load_daily_logs reads back from
\* daily_logs.txt a list of the same length with the appended (kind, text) at every
\* position, whatever the kinds are.
C2_EventRoundTrip ==
    NoSeparatorInTexts(dailyLogs)
        => KindText(load_daily_logs(World).logs) = KindText(dailyLogs)

\* C2: events have been appended, none of their texts contains " - ", one kind is not a known one
C2_Witness ==
    /\ lastOp[1] = "append_daily_log"
    /\ NoSeparatorInTexts(dailyLogs)
    /\ \E i \in 1 .. Len(dailyLogs) : dailyLogs[i].type \notin { "HOURLY", "NOTE" }

-----------------------------------------------------------------------------
(* Properties: Clear All                                                   *)

\* C3: right after a confirmed Clear All the three lists in memory are empty, none of
\* daily_logs.txt, tasks.txt, daily_status.txt, weekly_status.txt exists, and
\* cleared_marker.txt exists.
C3_ClearAllAtomic ==
    lastOp = <<"clearAllData">>
        => /\ dailyLogs = <<>> /\ breaks = <<>> /\ tasks = <<>>
           /\ \A f \in CoreFiles : ~Exists(fs, f)
           /\ Exists(fs, ClearedMarkerFile)

\* C3: Clear All has just been confirmed in a program that had written its files
C3_Witness ==
    /\ lastOp = <<"clearAllData">>
    /\ Exists(fs, DailyLogsFile)
    /\ Exists(fs, TasksFile)

\* C4: nothing recorded before a Clear All is in memory again later: the next start of the
\* program, which calls load_tasks and load_daily_logs, finds no event and no task when
\* nothing was added after the clear.
C4_ClearAllIrreversible ==
    lastOp = <<"clearAllData">>
        => /\ load_daily_logs(load_tasks(World)).logs = <<>>
           /\ load_daily_logs(load_tasks(World)).tasks = <<>>

-----------------------------------------------------------------------------
(* Properties: break tracker                                               *)

\* the positions of the open entries of category c
OpenOfType(bs, c) == { i \in 1 .. Len(bs) : bs[i].type = c /\ bs[i].end = 0 }

\* from bs to bs2 the entry at k was closed at clock and nothing else changed
ClosedOnly(bs, bs2, k, clock) ==
    /\ Len(bs2) = Len(bs)
    /\ bs2[k] = [type |-> bs[k].type, start |-> bs[k].start, end |-> clock]
    /\ bs2[k].end # 0
    /\ \A i \in 1 .. Len(bs) : i # k => bs2[i] = bs[i]

\* logs2 is logs with exactly one more event, of the given kind
AppendedOne(logs, logs2, kind) ==
    /\ Len(logs2) = Len(logs) + 1
    /\ SubSeq(logs2, 1, Len(logs)) = logs
    /\ logs2[Len(logs2)].type = kind

\* w2 is w with its open entry k closed and one BREAK_END event more
PairedAt(w, w2, k) ==
    /\ ClosedOnly(w.breaks, w2.breaks, k, now)
    /\ AppendedOne(w.logs, w2.logs, "BREAK_END")
    /\ w2.tasks = w.tasks

\* C5: in every state with an open entry of category c, end_last_break_of_type(c) closes
\* the open entry of c at the highest position, leaves every other entry as it was, and
\* appends exactly one BREAK_END event.
C5_BreakPairing ==
    \A c \in Range(kBreakTypes) :
        OpenOfType(breaks, c) # {}
            => PairedAt(World, end_last_break_of_type(World, c), SetMax(OpenOfType(breaks, c)))

\* C5: end_last_break_of_type has closed a Coffee break while an older Coffee break stays open
C5_Witness ==
    /\ lastOp = <<"end_last_break_of_type", "Coffee">>
    /\ dailyLogs # <<>>
    /\ dailyLogs[Len(dailyLogs)].type = "BREAK_END"
    /\ \E i, j \in 1 .. Len(breaks) :
          /\ i < j
          /\ breaks[i].type = "Coffee" /\ breaks[i].end = 0
          /\ breaks[j].type = "Coffee" /\ breaks[j].end = now

-----------------------------------------------------------------------------
(* Properties: exports                                                     *)

\* the lines of the file at path
FileLines(f, path) == getlines(Content(f, path))

NonEmpty(line) == line # ""

HumanLine(d) == human_log_line(d.type, d.text, d.ts)

\* lines holds the line of event i of logs exactly when the event is not older than
\* 604800 seconds at clock
WeeklyFiltered(logs, clock, lines) ==
    \A i \in 1 .. Len(logs) :
        HumanLine(logs[i]) \in lines <=> logs[i].ts >= clock - 604800

\* the lines of the file the export r wrote
WrittenLines(r) == Range(FileLines(r.w.fs, r.path))

\* if the export r wrote a file, the file holds the events of the last 604800 seconds
WeeklyExportFiltered(r) == r.path # "" => WeeklyFiltered(dailyLogs, now, WrittenLines(r))

\* C6: the file export_weekly_logs_file writes includes an event exactly when its timestamp
\* is >= now - 604800: one at now - 604800 is in, one at now - 604801 is out.
C6_WeeklyFilterBoundary == WeeklyExportFiltered(export_weekly_logs_file(World))

\* C6: the weekly export was written with one event exactly 604800 seconds old and one a
\* second older
C6_Witness ==
    /\ lastOp = <<"export_weekly_logs_file">>
    /\ ret # ""
    /\ \E i, j \in 1 .. Len(dailyLogs) :
          /\ dailyLogs[i].ts = now - 604800
          /\ dailyLogs[j].ts = now - 604801
          /\ HumanLine(dailyLogs[i]) \in Range(FileLines(fs, ret))
          /\ HumanLine(dailyLogs[j]) \notin Range(FileLines(fs, ret))

\* the local (year, month, day-of-month) of t
LocalDate(t) == <<localtime(t).tm_year, localtime(t).tm_mon, localtime(t).tm_mday>>

IsHourlyOn(d, clock) == d.type = "HOURLY" /\ LocalDate(d.ts) = LocalDate(clock)

\* the events of kind HOURLY on the local day of clock, in store order
HourlyOfDay(logs, clock) ==
    LET Test(d) == IsHourlyOn(d, clock) IN SelectSeq(logs, Test)

HumanLines(logs) == [i \in 1 .. Len(logs) |-> HumanLine(logs[i])]

\* if the export r wrote a file, its lines are those of the HOURLY events of today
HourlyExportOfToday(r) ==
    r.path # ""
        => SelectSeq(FileLines(r.w.fs, r.path), NonEmpty) = HumanLines(HourlyOfDay(dailyLogs, now))

\* C7: the file export_hourly_logs_today writes holds, in store order, one line for each
\* HOURLY event whose local (year, month, day-of-month) is that of now, and no line for any
\* other event, so none for an event of the previous calendar day less than 24 hours old.
C7_SameDayFilter == HourlyExportOfToday(export_hourly_logs_today(World))

\* C7: the hourly export was written while the log holds an HOURLY event of the previous
\* calendar day that is less than 24 hours old
C7_Witness ==
    /\ lastOp = <<"export_hourly_logs_today">>
    /\ ret # ""
    /\ \E i \in 1 .. Len(dailyLogs) :
          /\ dailyLogs[i].type = "HOURLY"
          /\ now - dailyLogs[i].ts < 86400
          /\ LocalDate(dailyLogs[i].ts) # LocalDate(now)
          /\ HumanLine(dailyLogs[i]) \notin Range(FileLines(fs, ret))

\* the export r returned the empty path and left the files f as they were
WroteNothing(f, r) == r.path = "" /\ r.w.fs = f

\* C8: when no event is both HOURLY and on today's local day, export_hourly_logs_today
\* returns the empty path and leaves every file as it is.
C8_HourlyNothingToExport ==
    HourlyOfDay(dailyLogs, now) = <<>> => WroteNothing(fs, export_hourly_logs_today(World))

\* C8: the hourly export returned the empty path although the disk is writable and the log
\* holds an HOURLY event of another day and an event of today of another kind
C8_Witness ==
    /\ lastOp = <<"export_hourly_logs_today">>
    /\ ret = ""
    /\ diskOK
    /\ ExportFiles(fs) = {}
    /\ \E i, j \in 1 .. Len(dailyLogs) :
          /\ dailyLogs[i].type = "HOURLY" /\ LocalDate(dailyLogs[i].ts) # LocalDate(now)
          /\ dailyLogs[j].type # "HOURLY" /\ LocalDate(dailyLogs[j].ts) = LocalDate(now)

\* from f to r.w.fs exactly the file r.path was written
WroteExactly(f, r) ==
    /\ r.path # ""
    /\ DOMAIN r.w.fs = DOMAIN f \cup {r.path}
    /\ \A p \in DOMAIN f \ {r.path} : r.w.fs[p] = f[p]

\* C9: on an empty log export_weekly_logs_file returns the empty path and writes nothing;
\* on a non-empty log, when the file can be opened, it writes exactly one file and returns
\* its path, even if no event is within the last 7 days.
C9_WeeklyAlwaysExports ==
    /\ dailyLogs = <<>> => WroteNothing(fs, export_weekly_logs_file(World))
    /\ dailyLogs # <<>> /\ diskOK => WroteExactly(fs, export_weekly_logs_file(World))

\* C9: the weekly export wrote a file although every event it read is older than 7 days
C9_Witness ==
    /\ lastOp = <<"export_weekly_logs_file">>
    /\ ret # ""
    /\ Exists(fs, ret)
    /\ Len(dailyLogs) >= 2
    /\ \A i \in 1 .. (Len(dailyLogs) - 1) : dailyLogs[i].ts < now - 604800
    /\ dailyLogs[Len(dailyLogs)].type = "EXPORT"

\* r.w differs from w at most in files other than daily_logs.txt and tasks.txt
SnapshotOnly(w, r) ==
    /\ r.w.logs = w.logs
    /\ r.w.breaks = w.breaks
    /\ r.w.tasks = w.tasks
    /\ \A p \in { DailyLogsFile, TasksFile } :
          /\ Exists(r.w.fs, p) <=> Exists(w.fs, p)
          /\ Content(r.w.fs, p) = Content(w.fs, p)

\* C10: export_hourly_logs_today, export_weekly_logs_file and export_text_to_file leave the
\* event list, the break list, the task list, daily_logs.txt and tasks.txt as they are,
\* whether or not they write a file.
C10_ExportsReadOnly ==
    /\ SnapshotOnly(World, export_hourly_logs_today(World))
    /\ SnapshotOnly(World, export_weekly_logs_file(World))
    /\ \A b \in StatusExports, content \in StatusTexts :
          SnapshotOnly(World, export_text_to_file(World, b.prefix, content))

\* C10: an export wrote its file from a program that holds events, a break and a task
C10_Witness ==
    /\ lastOp[1] \in { "export_hourly_logs_today", "export_weekly_logs_file", "export_text_to_file" }
    /\ ret # ""
    /\ Exists(fs, ret)
    /\ dailyLogs # <<>> /\ breaks # <<>> /\ tasks # <<>>
    /\ Exists(fs, DailyLogsFile) /\ Exists(fs, TasksFile)

-----------------------------------------------------------------------------
(* Properties: appending an event                                          *)

\* w2 is w with the event (now, kind, text) at the end of the event list; when the file
\* cannot be opened the files of w2 are those of w
AppendedEvent(w, w2, kind, text) ==
    /\ w2.logs = Append(w.logs, [ts |-> now, type |-> kind, text |-> text])
    /\ w2.breaks = w.breaks
    /\ w2.tasks = w.tasks
    /\ ~diskOK => w2.fs = w.fs

-----------------------------------------------------------------------------
(* Properties: loading tasks.txt                                           *)

\* what load_tasks looks at for the marker: the line after its first ':' and the blanks
\* that follow
AfterIndex(line) == TrimLeft(AfterColon(line, find(line, ":", 0)))

\* the line has the 3-character bracket marker
HasMarker(line) ==
    Len(AfterIndex(line)) >= 3 /\ at(AfterIndex(line), 0) = "[" /\ at(AfterIndex(line), 2) = "]"

Max0(n) == IF n < 0 THEN 0 ELSE n

\* s holds no digit
NoDigit(s) == \A i \in 0 .. (Len(s) - 1) : ~isdigit(at(s, i))

\* the line has a suffix "(parent=" ... ")" at p .. e with no digit in between
NonNumericAt(line, p, e) ==
    p # npos /\ e # npos /\ NoDigit(substr(line, p + 8, e - (p + 8)))

NonNumericParent(line) ==
    NonNumericAt(line, rfind(line, "(parent="), find(line, ")", Max0(rfind(line, "(parent="))))

\* ts holds one task for each of the lines, with done = false for a line without marker
\* and parent = -1 for a line whose parent is not a number; a line save_tasks wrote is
\* read as it was written, whatever precedes it
LoadedFrom(lines, ts) ==
    /\ Len(ts) = Len(lines)
    /\ \A i \in 1 .. Len(lines) :
          /\ ~HasMarker(lines[i]) => ts[i].done = FALSE
          /\ NonNumericParent(lines[i]) => ts[i].parent = -1
          /\ lines[i] = "1: [x] b (parent=0)" => ts[i] = [name |-> "b", parent |-> 0, done |-> TRUE]
          /\ lines[i] = "0: [ ] a" => ts[i] = [name |-> "a", parent |-> -1, done |-> FALSE]

\* C12: load_tasks makes one task for every non-empty line of tasks.txt, in file order; a
\* line without the bracket marker gives done = false, a line whose (parent=...) is not a
\* number gives parent = -1, and the lines after such a line load all the same.
C12_MalformedTaskLines ==
    LoadedFrom(SelectSeq(FileLines(fs, TasksFile), NonEmpty), load_tasks(World).tasks)

\* C12: tasks.txt was loaded with a line without marker, then a line with a parent that is
\* not a number, then a line save_tasks wrote, and all three are tasks
C12_Witness ==
    /\ lastOp = <<"restart">>
    /\ FileLines(fs, TasksFile) = <<"c", "2: [ ] d (parent=zz)", "1: [x] b (parent=0)">>
    /\ Len(tasks) = 3
    /\ tasks[1].done = FALSE
    /\ tasks[2].parent = -1
    /\ tasks[3] = [name |-> "b", parent |-> 0, done |-> TRUE]

-----------------------------------------------------------------------------
(* Properties: json_escape                                                 *)

\* the character a backslash followed by c stands for; "?" when there is none
Unescaped(c) ==
    CASE c = "\\" -> "\\"
      [] c = "\"" -> "\""
      [] c = "n" -> "\n"
      [] c = "r" -> "\r"
      [] c = "t" -> "\t"
      [] OTHER -> "?"

\* e read back: each backslash and the character after it are one character
RECURSIVE Unescape(_)
Unescape(e) ==
    IF e = "" THEN ""
    ELSE IF at(e, 0) = "\\"
         THEN (IF Len(e) >= 2 THEN Unescaped(at(e, 1)) ELSE "?") \o Unescape(substrFrom(e, 2))
         ELSE at(e, 0) \o Unescape(substrFrom(e, 1))

\* how many characters of s are a backslash, a double quote, a newline, a carriage
\* return or a tab
Specials(s) ==
    Cardinality({ i \in 0 .. (Len(s) - 1) : at(s, i) \in { "\\", "\"", "\n", "\r", "\t" } })

\* e has no raw double quote, newline, carriage return or tab: each double quote follows
\* a backslash and the other three do not occur
NoRaw(e) ==
    \A i \in 0 .. (Len(e) - 1) :
        /\ at(e, i) \notin { "\n", "\r", "\t" }
        /\ at(e, i) = "\"" => i > 0 /\ at(e, i - 1) = "\\"

\* e is s with each of the five characters replaced by its two-character escape and every
\* other character copied, in order
EscapedAs(s, e) ==
    /\ Unescape(e) = s
    /\ Len(e) = Len(s) + Specials(s)
    /\ NoRaw(e)

\* C13: json_escape replaces backslash, double quote, newline, carriage return and tab by
\* their two-character escapes and copies every other character, in order, so its output
\* has no raw double quote, newline, carriage return or tab.
C13_JsonEscape == lastOp[1] = "json_escape" => EscapedAs(lastOp[2], ret)

\* C13: json_escape was given a double quote, a backslash and a newline and returned the
\* three escapes
C13_Witness ==
    /\ lastOp = <<"json_escape", "\"\\\n">>
    /\ ret = "\\\"\\\\\\n"

-----------------------------------------------------------------------------
(* Properties: layout of the weekly export                                 *)

\* the events of logs not older than 604800 seconds at clock, in store order
Qualifying(logs, clock) ==
    LET Test(d) == d.ts >= clock - 604800 IN SelectSeq(logs, Test)

\* the events of kind HOURLY among logs, in store order
HourlyOnly(logs) ==
    LET Test(d) == d.type = "HOURLY" IN SelectSeq(logs, Test)

JsonLines(logs) == [i \in 1 .. Len(logs) |-> HourlyJson(logs[i])]

\* the lines of a weekly export of the qualifying events q written at clock, but for the
\* empty lines that set its parts apart
WeeklyLines(q, clock) ==
    <<"WEEKLY LOG EXPORT", "Generated: " \o format_time_local(clock), "Range: last 7 days">>
      \o HumanLines(q)
      \o <<"=== HOURLY_ENTRIES_JSONL (one JSON object per line) ===">>
      \o JsonLines(HourlyOnly(q))
      \o <<"=== END OF EXPORT ===">>

\* if the export r wrote a file, its non-empty lines are those of the layout
WeeklyLaidOut(r) ==
    r.path # ""
        => SelectSeq(FileLines(r.w.fs, r.path), NonEmpty) = WeeklyLines(Qualifying(dailyLogs, now), now)

\* C14: the file export_weekly_logs_file writes is, in this order, the header, one line per
\* qualifying event of any kind in store order, the JSONL delimiter line, one JSON object
\* line per qualifying HOURLY event in store order and none for another kind, and the
\* end-of-export delimiter line.
C14_WeeklyLayout == WeeklyLaidOut(export_weekly_logs_file(World))

\* C14: the log holds a status event whose text has two lines and an HOURLY event, and the
\* disk is writable, so that the weekly export writes them
C14_Witness ==
    /\ diskOK
    /\ \E i, j \in 1 .. Len(dailyLogs) :
          /\ dailyLogs[i].type = "DAILY_STATUS" /\ dailyLogs[i].text = "t\nu"
          /\ dailyLogs[j].type = "HOURLY"
          /\ dailyLogs[i].ts >= now - 604800 /\ dailyLogs[j].ts >= now - 604800

-----------------------------------------------------------------------------
(* Properties: ending a break that is not open                             *)

\* w2 is w with the same breaks and tasks and exactly one event more, of kind BREAK_WARN
WarnedOnly(w, w2) ==
    /\ w2.breaks = w.breaks
    /\ w2.tasks = w.tasks
    /\ AppendedOne(w.logs, w2.logs, "BREAK_WARN")

\* C15: when no entry of category c is open, end_last_break_of_type(c) leaves the break
\* list as it is and appends exactly one event, of kind BREAK_WARN and not BREAK_END.
C15_BreakWarn ==
    \A c \in Range(kBreakTypes) :
        OpenOfType(breaks, c) = {} => WarnedOnly(World, end_last_break_of_type(World, c))

\* C15: a Coffee break was ended while the only Coffee entry was closed already and a
\* Bathroom break was open: a BREAK_WARN event is the last one and both entries stay
C15_Witness ==
    /\ lastOp = <<"end_last_break_of_type", "Coffee">>
    /\ dailyLogs # <<>>
    /\ dailyLogs[Len(dailyLogs)].type = "BREAK_WARN"
    /\ \E i, j \in 1 .. Len(breaks) :
          /\ breaks[i].type = "Coffee" /\ breaks[i].end # 0
          /\ breaks[j].type = "Bathroom" /\ breaks[j].end = 0

-----------------------------------------------------------------------------
(* Properties: names of the export files                                   *)

\* C16: two successful calls of export_text_to_file, with the same prefix or not and at
\* any two times, the same clock second included, return different paths: after a call
\* that returned a path, no further successful call returns that path again.
C16_UniqueExportNames ==
    lastOp[1] = "export_text_to_file" /\ ret # ""
        => \A b \in StatusExports, content \in StatusTexts :
              export_text_to_file(World, b.prefix, content).path # ret

\* C16: export_text_to_file has written a file and the disk is still writable
C16_Witness ==
    /\ lastOp[1] = "export_text_to_file"
    /\ ret # ""
    /\ Exists(fs, ret)
    /\ diskOK

-----------------------------------------------------------------------------
(* Properties: daily_logs.txt and the event list                           *)

\* C17: after any sequence of operations that write events on a disk that takes every
\* write (appends, task adds, break starts and ends, status saves, exports, File > Save
\* Daily Logs), the (kind, text) pairs of the lines of daily_logs.txt are those of the
\* event list in memory, in the same order: a reload gives the list shown.
C17_FileMirrorsMemory ==
    KindText(LoadLogLines(FileLines(fs, DailyLogsFile))) = KindText(dailyLogs)

\* C17: File > Save Daily Logs ran with events in memory and daily_logs.txt written
C17_Witness ==
    /\ lastOp = <<"save_daily_logs">>
    /\ dailyLogs # <<>>
    /\ Exists(fs, DailyLogsFile)

-----------------------------------------------------------------------------
(* Properties: the task tree                                               *)

\* the parent of task i (0-based) is none or another task of the list
ValidParent(ts, i) ==
    \/ ts[i + 1].parent = -1
    \/ /\ 0 <= ts[i + 1].parent
       /\ ts[i + 1].parent < Len(ts)
       /\ ts[i + 1].parent # i

\* C18: after any sequence of choosing a parent, Add Task, toggling and Clear All from an
\* empty task store, the parent of every task is -1 or the index of another task of the
\* list, so the parent links form a forest.
C18_ParentValidity ==
    /\ \A i \in 0 .. (Len(tasks) - 1) : ValidParent(tasks, i)
    /\ IsForest(tasks)

\* C18: a task was added under a parent chosen in the combo
C18_Witness ==
    /\ lastOp[1] = "add_task"
    /\ Len(tasks) = 2
    /\ tasks[2].parent = 0
    /\ parentComboIndex = 1

\* the row of task i (0-based) in the rows drawn; 0 when it has none
RowOf(rows, i) ==
    IF \E k \in 1 .. Len(rows) : rows[k].idx = i
    THEN CHOOSE k \in 1 .. Len(rows) : rows[k].idx = i
    ELSE 0

\* every task of ts has exactly one row
VisitsEachOnce(rows, ts) ==
    /\ Len(rows) = Len(ts)
    /\ { rows[k].idx : k \in 1 .. Len(rows) } = 0 .. (Len(ts) - 1)

\* the row of a task comes after the row of its parent, one level deeper and below no
\* other row of the parent's level in between; a root has depth 0
ParentFirst(rows, ts) ==
    \A k \in 1 .. Len(rows) :
        IF ts[rows[k].idx + 1].parent = -1 THEN rows[k].depth = 0
        ELSE /\ RowOf(rows, ts[rows[k].idx + 1].parent) \in 1 .. (k - 1)
             /\ rows[k].depth = rows[RowOf(rows, ts[rows[k].idx + 1].parent)].depth + 1
             /\ \A j \in (RowOf(rows, ts[rows[k].idx + 1].parent) + 1) .. k :
                    rows[j].depth >= rows[k].depth

\* two tasks with the same parent (or both roots) are drawn in the order of the list
SiblingsInStoreOrder(rows, ts) ==
    \A j, k \in 1 .. Len(rows) :
        (j < k /\ ts[rows[j].idx + 1].parent = ts[rows[k].idx + 1].parent)
            => rows[j].idx < rows[k].idx

\* a row is flagged as a leaf exactly when no task names its task as parent
LeavesFlagged(rows, ts) ==
    \A k \in 1 .. Len(rows) :
        rows[k].leaf <=> (\A i \in 1 .. Len(ts) : ts[i].parent # rows[k].idx)

PreOrder(rows, ts) ==
    /\ VisitsEachOnce(rows, ts)
    /\ ParentFirst(rows, ts)
    /\ SiblingsInStoreOrder(rows, ts)
    /\ LeavesFlagged(rows, ts)

\* C19: for a task list whose parent links form a forest, drawing every root in store
\* order with all nodes expanded ends with every task visited exactly once, each parent
\* before its children, the children of a node in store order, and a task that no task
\* points to flagged as a leaf.
C19_TreeTraversal ==
    (lastOp[1] = "draw" /\ IsForest(tasks)) => PreOrder(drawn, tasks)

\* C19: a forest was drawn in which a task has two children and a later task is a root
C19_Witness ==
    /\ lastOp[1] = "draw"
    /\ IsForest(tasks)
    /\ Len(tasks) = 3
    /\ tasks[1].parent = 1
    /\ tasks[2].parent = -1
    /\ tasks[3].parent = 1
    /\ Len(drawn) = 3

\* steps are the three states add_task(name, parent) goes through from w: first the list
\* has the one new task at its end and nothing else differs; then tasks.txt holds the
\* lines of that list and the event log is still as in w; only then one TASK event is
\* added, with the list and tasks.txt as they were
AddedInOrder(w, steps, name, parent) ==
    /\ steps[1] = [w EXCEPT !.tasks =
                      w.tasks \o <<[name |-> name, parent |-> parent, done |-> FALSE]>>]
    /\ steps[2].tasks = steps[1].tasks
    /\ steps[2].logs = w.logs
    /\ steps[2].breaks = w.breaks
    /\ steps[2].fs = WriteFile(w.fs, TasksFile, TaskLinesFrom(steps[1].tasks, 0))
    /\ steps[3].tasks = steps[1].tasks
    /\ steps[3].breaks = w.breaks
    /\ steps[3].fs[TasksFile] = steps[2].fs[TasksFile]
    /\ AppendedOne(w.logs, steps[3].logs, "TASK")

\* C20: add_task(name, parent) appends exactly one task (name, parent, done = false) at
\* the end of the task list and leaves the existing tasks unchanged, then rewrites
\* tasks.txt from the list that already holds the new task, and only after that appends
\* exactly one event of kind TASK to the event log.
C20_AddTaskOrder ==
    \A name \in TaskNames, parent \in -1 .. Len(tasks) :
        /\ AddedInOrder(World, AddTaskSteps(World, name, parent), name, parent)
        /\ add_task(World, name, parent) = AddTaskSteps(World, name, parent)[3]

\* C20: a second task was added: the list, tasks.txt and the event log all end with it
C20_Witness ==
    /\ lastOp[1] = "add_task"
    /\ Len(tasks) = 2
    /\ tasks[1].done
    /\ tasks[2] = [name |-> lastOp[2], parent |-> lastOp[3], done |-> FALSE]
    /\ LoadTaskLines(getlines(fs[TasksFile]))[2].parent = lastOp[3]
    /\ dailyLogs[Len(dailyLogs)].type = "TASK"

-----------------------------------------------------------------------------
(* Properties: reading daily_logs.txt                                      *)

\* where the first " - " of the line starts at or after position from (0-based); -1: none
SepFrom(line, from) ==
    IF \E p \in from .. (Len(line) - 3) : SubSeq(line, p + 1, p + 3) = " - "
    THEN CHOOSE p \in from .. (Len(line) - 3) :
             /\ SubSeq(line, p + 1, p + 3) = " - "
             /\ \A q \in from .. (p - 1) : SubSeq(line, q + 1, q + 3) # " - "
    ELSE -1

\* the (kind, text) of a line whose first " - " is at first and whose next one, after the
\* end of the first, is at second
KindTextAt(line, first, second) ==
    IF first = -1 THEN <<"LOG", line>>
    ELSE IF second = -1 THEN <<"LOG", SubSeq(line, first + 4, Len(line))>>
    ELSE <<SubSeq(line, first + 4, second), SubSeq(line, second + 4, Len(line))>>

KindTextOfLine(line) ==
    KindTextAt(line, SepFrom(line, 0),
               IF SepFrom(line, 0) = -1 THEN -1 ELSE SepFrom(line, SepFrom(line, 0) + 3))

\* logs has one event per line of lines, in order, with the kind and text of the line
EventPerLine(logs, lines) ==
    KindText(logs) = [i \in 1 .. Len(lines) |-> KindTextOfLine(lines[i])]

\* C21: load_daily_logs replaces the list in memory with one event per non-empty line of
\* daily_logs.txt, in file order: kind LOG and the whole line as text for a line without
\* " - ", kind LOG and what follows the " - " for a line with one, and for a line with two
\* or more the span between the first two as kind and what follows the second as text; no
\* line ends the load early.
C21_EventLineParsing ==
    EventPerLine(load_daily_logs(World).logs,
                 SelectSeq(FileLines(fs, DailyLogsFile), NonEmpty))

\* C21: a file of three lines was loaded, one of them empty, one with three " - " and one
\* with none
C21_Witness ==
    /\ lastOp[1] = "restart"
    /\ Len(FileLines(fs, DailyLogsFile)) = 3
    /\ Len(dailyLogs) = 2
    /\ dailyLogs[1].type = "K"
    /\ dailyLogs[1].text = "y - z"
    /\ dailyLogs[2].type = "LOG"
    /\ dailyLogs[2].text = "x"

-----------------------------------------------------------------------------
(* Properties: the life of a break entry                                   *)

\* bs2 has every entry of bs at its place, with the same category and start, and with the
\* same end when bs had one
EntriesKept(bs, bs2) ==
    /\ Len(bs2) >= Len(bs)
    /\ \A i \in 1 .. Len(bs) :
          /\ bs2[i].type = bs[i].type
          /\ bs2[i].start = bs[i].start
          /\ bs[i].end # 0 => bs2[i].end = bs[i].end

\* b is closed, and starts at least 1 and at most 20 minutes before it ends
ClosedRandom(b) ==
    /\ b.end # 0
    /\ b.end - b.start >= 60
    /\ b.end - b.start <= 20 * 60

\* one step of the break tracker: the process ends, or the list keeps its entries
BreakStep ==
    \/ lastOp'[1] = "crash"
    \/ /\ EntriesKept(breaks, breaks')
       /\ lastOp'[1] = "add_random_break" =>
             /\ Len(breaks') = Len(breaks) + 1
             /\ ClosedRandom(breaks'[Len(breaks')])

-----------------------------------------------------------------------------
(* Properties: the parent selector                                         *)

\* C23: in every state reached by Add Task, choosing a parent and Clear All, the index a
\* frame reads parentOptions with is at least 0 and at most the number of tasks, so the
\* read is within the option list.
C23_ParentComboInRange ==
    /\ 0 <= parentComboIndex
    /\ parentComboIndex <= Len(tasks)

\* C23: a frame has read parentOptions past its end
C23_Witness ==
    /\ lastOp[1] = "frame"
    /\ lastOp[2] >= Len(ParentOptions(tasks))
    /\ ret = "?"
====
